---- MODULE Spec2Model ----
(***************************************************************************)
(* The database layer of astra: the unified client (Database), the         *)
(* networked pooled driver (MysqlDriver) and the embedded driver           *)
(* (SQLiteDriver).  Logical requests interleave at every await; the        *)
(* backend, the pool library and the user callback are the environment,    *)
(* whose outcomes (a statement succeeds or fails, fn returns or raises)    *)
(* are chosen nondeterministically.                                        *)
(***************************************************************************)
EXTENDS Integers, Sequences, FiniteSets, TLC

VARIABLES
    env,            \* process.env: [type, host, user], "" when the variable is unset
    defaultDriver,  \* Database.defaultDriver
    drivers,        \* keys of Database.drivers
    connection,     \* MysqlDriver.connection: a pool id, or NoPool for null
    isInitialized,  \* MysqlDriver.isInitialized
    nextPool,       \* number of pools createPool has constructed so far
    ended,          \* pools on which end() has been invoked
    closeCalled,    \* close() has been called on the MysqlDriver instance
    handedDead,     \* getConnection() has returned a pool that was already ended
    lazyPools,      \* pools that a getConnection() call created
    closePc,        \* MysqlDriver.close(): "idle", "ending" (awaiting end()), "done"
    cpc,            \* Database.closeAll(): "idle", "awaiting" (Promise.all), "done"
    sqliteOpen,     \* the embedded connection handle is open
    inTx,           \* a transaction is active on the embedded connection
    sPending,       \* uncommitted writes on the embedded connection
    pragmas,        \* PRAGMAs in force on the embedded connection
    committed,      \* writes committed in the active backend
    tables,         \* tables that exist in the active backend
    instance,       \* Database.instance: a client id, or NoInstance for undefined
    clients,        \* number of Database objects constructed so far
    req             \* the logical requests: position, locals and history of each

clientVars == <<env, defaultDriver, drivers, instance, clients>>
mysqlVars == <<connection, isInitialized, nextPool, ended, closeCalled, handedDead,
              lazyPools>>
closeVars == <<closePc, cpc>>
sqliteVars == <<sqliteOpen, inTx, sPending, pragmas>>
vars == <<env, defaultDriver, drivers, connection, isInitialized, nextPool, ended,
          closeCalled, handedDead, lazyPools, closePc, cpc, sqliteOpen, inTx,
          sPending, pragmas,
          committed, tables, instance, clients, req>>

(* Bounds of the model *)
NumReq == 2
MaxPools == 3
MaxWrites == 1

Req == 1..NumReq

(* `connection: Pool | null = null` *)
NoPool == 0

(* `private static instance: Database`, undefined until the first getInstance() *)
NoInstance == 0

(***************************************************************************)
(* Config/Database.ts                                                      *)
(***************************************************************************)
EnvTypes == {"", "mysql", "sqlite"}
EnvHosts == {"", "db.internal"}
EnvUsers == {"", "app"}

\* process.env.X || fallback
OrDefault(value, fallback) == IF value = "" THEN fallback ELSE value

\* DATABASE_CONFIG.mysql.host / .user
ConfigHost(e) == OrDefault(e.host, "localhost")
ConfigUser(e) == OrDefault(e.user, "root")

\* DEFAULT_DATABASE
DEFAULT_DATABASE(e) == OrDefault(e.type, "sqlite")

(***************************************************************************)
(* Database.initializeDrivers / initializeSQLite: the kind of the one      *)
(* driver that is constructed and registered.                              *)
(***************************************************************************)
InitializeDrivers(e) ==
    LET activeDatabase == OrDefault(e.type, DEFAULT_DATABASE(e))
    IN  IF activeDatabase = "mysql"
        THEN IF ConfigHost(e) # "" /\ ConfigUser(e) # "" THEN "mysql" ELSE "sqlite"
        ELSE "sqlite"

(***************************************************************************)
(* MysqlDriver: pool lifecycle.  The operators work on the triple          *)
(* (connection, isInitialized, nextPool); createPool returns a new object, *)
(* numbered nextPool + 1.                                                  *)
(***************************************************************************)
Driver(c, i, n) == [connection |-> c, isInitialized |-> i, nextPool |-> n]

\* MysqlDriver.initialize
Initialize(c, i, n) ==
    IF c = NoPool THEN Driver(n + 1, TRUE, n + 1) ELSE Driver(c, i, n)

\* MysqlDriver.reconnect: end() on the current pool (recorded by the caller
\* through PoolsEndedByReconnect), then null, then initialize()
PoolsEndedByReconnect(c) == IF c # NoPool THEN {c} ELSE {}

\* variant: reconnect() without `this.connection = null`
ReconnectKeepsPool(c, i, n) == Initialize(c, FALSE, n)

Reconnect(c, i, n) == Initialize(NoPool, FALSE, n)

\* MysqlDriver.getConnection: the driver state after the call; the pool
\* returned is its connection field
GetConnection(c, i, n) ==
    IF c = NoPool \/ ~i THEN Initialize(c, i, n) ELSE Driver(c, i, n)

\* the call creates a pool
Creates(c, i) == c = NoPool \/ ~i

(***************************************************************************)
(* SQLiteDriver.initializeConnection: the PRAGMAs are executed in order    *)
(* inside one try block whose catch only logs, so the first one that       *)
(* throws skips the rest and the driver is used all the same.  failAt is   *)
(* the position of the PRAGMA that throws, past the end when none does.    *)
(***************************************************************************)
Pragmas == <<"journal_mode = WAL", "foreign_keys = ON", "busy_timeout = 10000">>

PragmaOutcomes == 1..(Len(Pragmas) + 1)

InitializeConnection(failAt) == {Pragmas[k] : k \in {j \in DOMAIN Pragmas : j < failAt}}

(***************************************************************************)
(* Requests.  Each request makes one call on the client.  dead records     *)
(* that the call was issued on a pool already ended, which the pool        *)
(* rejects; a call in flight when its pool is ended may settle either way. *)
(* n counts the writes made, <<r, 1>> .. <<r, n>>; pend holds those not    *)
(* yet committed on a networked transaction's connection.                  *)
(***************************************************************************)
IdleReq ==
    [pc |-> "idle", op |-> "none", dead |-> FALSE, n |-> 0,
     pend |-> {}, caught |-> "none", err |-> "none", res |-> "none", tr |-> <<>>,
     prior |-> FALSE, overlap |-> {}, native |-> "none", status |-> "none"]

Has(q, e) == \E k \in DOMAIN q.tr : q.tr[k] = e
Count(q, e) == Cardinality({k \in DOMAIN q.tr : q.tr[k] = e})
Before(q, a, b) ==
    \E j, k \in DOMAIN q.tr : j < k /\ q.tr[j] = a /\ q.tr[k] = b

\* the effect of a getConnection() call made by the running step
UseGetConnection ==
    /\ Creates(connection, isInitialized) => nextPool < MaxPools
    /\ LET d == GetConnection(connection, isInitialized, nextPool)
       IN  /\ connection' = d.connection
           /\ isInitialized' = d.isInitialized
           /\ nextPool' = d.nextPool
           /\ handedDead' = (handedDead \/ d.connection \in ended)
           /\ lazyPools' = IF d.nextPool # nextPool THEN lazyPools \cup {d.nextPool}
                                                   ELSE lazyPools
    /\ UNCHANGED <<ended, closeCalled>>

\* a getConnection() call made by the running step when createPool throws:
\* the catch block of initialize() resets isInitialized, the pool stays null
\* and getConnection() throws "MySQL connection pool is not available"
CreatePoolThrows ==
    /\ connection = NoPool
    /\ isInitialized' = FALSE
    /\ UNCHANGED <<connection, nextPool, ended, closeCalled, handedDead, lazyPools>>

\* variant: getDriver() answers from the kind alone, without the registry
AvailableWithoutRegistry == defaultDriver \in {"mysql", "sqlite"}

\* Database.getDriver: the active driver is registered
Available == defaultDriver \in drivers

Init ==
    /\ env \in [type : EnvTypes, host : EnvHosts, user : EnvUsers]
    /\ defaultDriver = InitializeDrivers(env)
    /\ drivers = {InitializeDrivers(env)}
    /\ LET d == IF InitializeDrivers(env) = "mysql"
                THEN Initialize(NoPool, FALSE, 0)
                ELSE Driver(NoPool, FALSE, 0)
       IN  /\ connection = d.connection
           /\ isInitialized = d.isInitialized
           /\ nextPool = d.nextPool
    /\ ended = {}
    /\ closeCalled = FALSE
    /\ handedDead = FALSE
    /\ lazyPools = {}
    /\ closePc = "idle"
    /\ cpc = "idle"
    /\ sqliteOpen = (InitializeDrivers(env) = "sqlite")
    /\ IF InitializeDrivers(env) = "sqlite"
       THEN \E failAt \in PragmaOutcomes : pragmas = InitializeConnection(failAt)
       ELSE pragmas = {}
    /\ inTx = FALSE
    /\ sPending = {}
    /\ committed = {}
    /\ tables = {}
    /\ instance = 1
    /\ clients = 1
    /\ req = [r \in Req |-> IdleReq]

(***************************************************************************)
(* Database.execute / Database.query                                       *)
(***************************************************************************)
\* the call up to its first await
ExecStart(r) ==
    /\ req[r].pc = "idle"
    /\ IF ~Available
       THEN /\ req' = [req EXCEPT ![r].op = "exec", ![r].pc = "done",
                                  ![r].err = "unavailable"]
            /\ UNCHANGED <<mysqlVars, sqliteVars, committed, tables>>
       ELSE IF defaultDriver = "mysql"
       THEN /\ \/ /\ UseGetConnection
                  /\ req' = [req EXCEPT ![r].op = "exec", ![r].pc = "await",
                                        ![r].dead = (connection' \in ended)]
               \/ /\ CreatePoolThrows
                  /\ req' = [req EXCEPT ![r].op = "exec", ![r].pc = "done",
                                        ![r].err = "noPool", ![r].tr = <<"noPool">>]
            /\ UNCHANGED <<sqliteVars, committed, tables>>
       ELSE \E ok \in BOOLEAN :
            /\ ok => sqliteOpen
            /\ req' = [req EXCEPT ![r].op = "exec", ![r].pc = "done",
                                  ![r].n = IF ok THEN 1 ELSE 0,
                                  ![r].err = IF ok THEN "none" ELSE "stmt",
                                  ![r].tr = <<IF ok THEN "stmtOk" ELSE "stmtFail">>]
            /\ sPending' = IF ok /\ inTx THEN sPending \cup {<<r, 1>>} ELSE sPending
            /\ committed' = IF ok /\ ~inTx THEN committed \cup {<<r, 1>>} ELSE committed
            /\ UNCHANGED <<mysqlVars, sqliteOpen, pragmas, inTx, tables>>
    /\ UNCHANGED <<clientVars, closeVars>>

\* pool.execute settles (networked driver)
ExecDone(r) ==
    /\ req[r].pc = "await"
    /\ \E ok \in BOOLEAN :
        /\ ok => ~req[r].dead
        /\ req' = [req EXCEPT ![r].pc = "done",
                              ![r].n = IF ok THEN 1 ELSE 0,
                              ![r].err = IF ok THEN "none" ELSE "stmt",
                              ![r].tr = <<IF ok THEN "stmtOk" ELSE "stmtFail">>]
        /\ committed' = IF ok THEN committed \cup {<<r, 1>>} ELSE committed
    /\ UNCHANGED <<clientVars, mysqlVars, closeVars, sqliteVars, tables>>

(***************************************************************************)
(* MysqlDriver.initialize: the "error" handlers of a pool and of its       *)
(* connections.  Every pool ever created keeps its handlers, so an ended   *)
(* pool can still signal.                                                  *)
(***************************************************************************)
FatalCodes == {"PROTOCOL_CONNECTION_LOST", "ECONNRESET"}
ErrorCodes == FatalCodes \cup {"ER_OTHER"}

PoolError(p, code) ==
    /\ p \in 1..nextPool
    /\ IF code \in FatalCodes
       THEN /\ nextPool < MaxPools
            /\ ended' = ended \cup PoolsEndedByReconnect(connection)
            /\ LET d == Reconnect(connection, isInitialized, nextPool)
               IN  /\ connection' = d.connection
                   /\ isInitialized' = d.isInitialized
                   /\ nextPool' = d.nextPool
       ELSE UNCHANGED <<connection, isInitialized, nextPool, ended>>
    /\ UNCHANGED <<clientVars, closeCalled, handedDead, lazyPools, closeVars, sqliteVars,
                   committed, tables, req>>

(***************************************************************************)
(* Database.closeAll, MysqlDriver.close, SQLiteDriver.close                *)
(***************************************************************************)
\* closeAll up to `await Promise.all`: close() of every registered driver
\* is called; MysqlDriver.close runs up to `await this.connection.end()`
CloseAllStart ==
    /\ cpc = "idle"
    /\ cpc' = "awaiting"
    /\ IF "mysql" \in drivers
       THEN /\ closeCalled' = TRUE
            /\ ended' = ended \cup PoolsEndedByReconnect(connection)
            /\ closePc' = IF connection # NoPool THEN "ending" ELSE "done"
            /\ UNCHANGED sqliteVars
       ELSE \* Database.close() of bun:sqlite drops an open transaction
            /\ sqliteOpen' = FALSE
            /\ UNCHANGED pragmas
            /\ inTx' = FALSE
            /\ sPending' = {}
            /\ closePc' = "done"
            /\ UNCHANGED <<closeCalled, ended>>
    /\ UNCHANGED <<clientVars, connection, isInitialized, nextPool, handedDead, lazyPools,
                   committed, tables, req>>

\* MysqlDriver.close after end() has resolved
MysqlCloseResume ==
    /\ closePc = "ending"
    /\ closePc' = "done"
    /\ connection' = NoPool
    /\ isInitialized' = FALSE
    /\ UNCHANGED <<clientVars, nextPool, ended, closeCalled, handedDead, lazyPools, cpc,
                   sqliteVars, committed, tables, req>>

\* closeAll after Promise.all has resolved
CloseAllFinish ==
    /\ cpc = "awaiting"
    /\ closePc = "done"
    /\ cpc' = "done"
    /\ drivers' = {}
    /\ UNCHANGED <<env, defaultDriver, instance, clients, mysqlVars,
                   closePc, sqliteVars, committed, tables, req>>

\* a closeAll() call on an empty registry: the loop finds no driver to
\* close, Promise.all([]) resolves and the registry is cleared again
CloseAllAgain(r) ==
    /\ req[r].pc = "idle"
    /\ drivers = {}
    /\ drivers' = {}
    /\ req' = [req EXCEPT ![r].op = "closeAll", ![r].pc = "done"]
    /\ UNCHANGED <<env, defaultDriver, instance, clients, mysqlVars, closeVars,
                   sqliteVars, committed, tables>>

(***************************************************************************)
(* Database.transaction -> MysqlDriver.transaction / SQLiteDriver.transaction *)
(* The history tr of a request records, in order, what the call executed:  *)
(* "commit" and "rollback" when the statement is issued, "...Ok"/"...Fail" *)
(* when it settles, "release" for connection.release().                    *)
(***************************************************************************)
Log(q, es) == q.tr \o es

\* SQLiteDriver.rollback succeeds when a transaction is active on the open
\* handle ("cannot rollback - no transaction is active" otherwise)
SqliteRollbackOk == sqliteOpen /\ inTx

\* the call up to its first await
TxStart(r) ==
    /\ req[r].pc = "idle"
    /\ IF ~Available
       THEN /\ req' = [req EXCEPT ![r].op = "tx", ![r].pc = "done",
                                  ![r].err = "unavailable"]
            /\ UNCHANGED <<mysqlVars, sqliteVars>>
       ELSE IF defaultDriver = "mysql"
       THEN \* getPoolConnection: getConnection(), then await pool.getConnection()
            /\ \/ /\ UseGetConnection
                  /\ req' = [req EXCEPT ![r].op = "tx", ![r].pc = "acquire",
                                        ![r].dead = (connection' \in ended)]
               \/ /\ CreatePoolThrows
                  /\ req' = [req EXCEPT ![r].op = "tx", ![r].pc = "done",
                                        ![r].err = "noPool", ![r].tr = <<"noPool">>]
            /\ UNCHANGED sqliteVars
       ELSE \* beginTransaction() outside the try, then callback()
            \E ok \in BOOLEAN :
            /\ ok => (sqliteOpen /\ ~inTx)
            /\ req' = [req EXCEPT ![r].op = "tx",
                                  ![r].pc = IF ok THEN "fn" ELSE "done",
                                  ![r].err = IF ok THEN "none" ELSE "begin",
                                  ![r].tr = <<IF ok THEN "beginOk" ELSE "beginFail">>]
            /\ inTx' = (inTx \/ ok)
            /\ UNCHANGED <<mysqlVars, sqliteOpen, pragmas, sPending>>
    /\ UNCHANGED <<clientVars, closeVars, committed, tables>>

\* pool.getConnection() settles; on success beginTransaction() is issued
MysqlAcquireDone(r) ==
    /\ req[r].pc = "acquire"
    /\ \E ok \in BOOLEAN :
        /\ ok => ~req[r].dead
        /\ req' = [req EXCEPT ![r].pc = IF ok THEN "begin" ELSE "done",
                              ![r].err = IF ok THEN "none" ELSE "acquire",
                              ![r].tr = <<IF ok THEN "acquireOk" ELSE "acquireFail">>]
    /\ UNCHANGED <<clientVars, mysqlVars, closeVars, sqliteVars, committed, tables>>

\* beginTransaction() settles: callback(connection) is called, or the
\* catch block issues rollback()
MysqlBeginDone(r) ==
    /\ req[r].pc = "begin"
    /\ \E ok \in BOOLEAN :
        req' = [req EXCEPT ![r].pc = IF ok THEN "fn" ELSE "rollback",
                           ![r].caught = IF ok THEN "none" ELSE "begin",
                           ![r].tr = Log(req[r], IF ok THEN <<"beginOk">>
                                                  ELSE <<"beginFail", "rollback">>)]
    /\ UNCHANGED <<clientVars, mysqlVars, closeVars, sqliteVars, committed, tables>>

\* fn executes one write: through the handle it was given (networked), or
\* through the client on the single connection (embedded, whose callback
\* receives no argument)
FnWrite(r) ==
    /\ req[r].pc = "fn"
    /\ req[r].n < MaxWrites
    /\ LET w == <<r, req[r].n + 1>>
       IN  IF defaultDriver = "mysql"
           THEN /\ req' = [req EXCEPT ![r].n = @ + 1, ![r].pend = @ \cup {w}]
                /\ UNCHANGED <<sPending, committed>>
           ELSE /\ Available /\ sqliteOpen
                /\ req' = [req EXCEPT ![r].n = @ + 1]
                /\ sPending' = IF inTx THEN sPending \cup {w} ELSE sPending
                /\ committed' = IF inTx THEN committed ELSE committed \cup {w}
    /\ UNCHANGED <<clientVars, mysqlVars, closeVars, sqliteOpen, pragmas, inTx, tables>>

\* the argument transaction() calls fn with: the pool connection
\* (`callback(connection)`), or nothing (`callback()`)
CallbackArg(kind) == IF kind = "mysql" THEN "PoolConnection" ELSE "undefined"

\* fn executes a statement through its argument, `connection.execute(...)`
\* as in the guide; on undefined the call is a TypeError raised inside fn,
\* which the catch block handles like any other
FnExecuteOnArg(r) ==
    /\ req[r].pc = "fn"
    /\ req[r].n < MaxWrites
    /\ IF CallbackArg(defaultDriver) = "undefined"
       THEN /\ req' = [req EXCEPT ![r].pc = "done",
                           ![r].err = IF SqliteRollbackOk THEN "fn" ELSE "rollback",
                           ![r].tr = Log(req[r],
                                <<"typeError", "fnRaise", "rollback",
                                  IF SqliteRollbackOk THEN "rollbackOk"
                                                      ELSE "rollbackFail">>)]
            /\ sPending' = IF SqliteRollbackOk THEN {} ELSE sPending
            /\ inTx' = IF SqliteRollbackOk THEN FALSE ELSE inTx
       ELSE /\ req' = [req EXCEPT ![r].n = @ + 1,
                                  ![r].pend = @ \cup {<<r, req[r].n + 1>>}]
            /\ UNCHANGED <<sPending, inTx>>
    /\ UNCHANGED <<clientVars, mysqlVars, closeVars, sqliteOpen, pragmas, committed, tables>>

\* fn completes without error: commit
FnReturn(r) ==
    /\ req[r].pc = "fn"
    /\ IF defaultDriver = "mysql"
       THEN /\ req' = [req EXCEPT ![r].pc = "commit",
                                  ![r].tr = Log(req[r], <<"fnOk", "commit">>)]
            /\ UNCHANGED <<sqliteVars, committed>>
       ELSE \E ok \in BOOLEAN :
            /\ ok => (sqliteOpen /\ inTx)
            /\ IF ok
               THEN /\ req' = [req EXCEPT ![r].pc = "done",
                               ![r].tr = Log(req[r], <<"fnOk", "commit", "commitOk">>)]
                    /\ committed' = committed \cup sPending
                    /\ sPending' = {}
                    /\ inTx' = FALSE
               ELSE \* commit() throws into the catch block: rollback()
                    /\ req' = [req EXCEPT ![r].pc = "done",
                               ![r].err = IF SqliteRollbackOk THEN "commit" ELSE "rollback",
                               ![r].tr = Log(req[r],
                                    <<"fnOk", "commit", "commitFail", "rollback",
                                      IF SqliteRollbackOk THEN "rollbackOk"
                                                          ELSE "rollbackFail">>)]
                    /\ sPending' = IF SqliteRollbackOk THEN {} ELSE sPending
                    /\ inTx' = IF SqliteRollbackOk THEN FALSE ELSE inTx
                    /\ UNCHANGED committed
            /\ UNCHANGED <<sqliteOpen, pragmas>>
    /\ UNCHANGED <<clientVars, mysqlVars, closeVars, tables>>

\* variants of the catch block of transaction(): without the rollback, and
\* committing instead of rolling back
FnRaiseNoRollback(r) ==
    /\ req[r].pc = "fn"
    /\ IF defaultDriver = "mysql"
       THEN req' = [req EXCEPT ![r].pc = "done", ![r].err = "fn",
                               ![r].tr = Log(req[r], <<"fnRaise", "release">>)]
       ELSE req' = [req EXCEPT ![r].pc = "done", ![r].err = "fn",
                               ![r].tr = Log(req[r], <<"fnRaise">>)]
    /\ UNCHANGED <<clientVars, mysqlVars, closeVars, sqliteVars, committed, tables>>

FnRaiseCommits(r) ==
    /\ req[r].pc = "fn"
    /\ IF defaultDriver = "mysql"
       THEN /\ req' = [req EXCEPT ![r].pc = "commit", ![r].caught = "fn",
                                  ![r].tr = Log(req[r], <<"fnRaise", "commit">>)]
            /\ UNCHANGED <<sqliteVars, committed>>
       ELSE /\ req' = [req EXCEPT ![r].pc = "done", ![r].err = "fn",
                                  ![r].tr = Log(req[r], <<"fnRaise", "commit", "commitOk">>)]
            /\ committed' = committed \cup sPending
            /\ sPending' = {}
            /\ inTx' = FALSE
            /\ UNCHANGED <<sqliteOpen, pragmas>>
    /\ UNCHANGED <<clientVars, mysqlVars, closeVars, tables>>

\* fn raises: the catch block
FnRaise(r) ==
    /\ req[r].pc = "fn"
    /\ IF defaultDriver = "mysql"
       THEN /\ req' = [req EXCEPT ![r].pc = "rollback", ![r].caught = "fn",
                                  ![r].tr = Log(req[r], <<"fnRaise", "rollback">>)]
            /\ UNCHANGED sqliteVars
       ELSE /\ req' = [req EXCEPT ![r].pc = "done",
                           ![r].err = IF SqliteRollbackOk THEN "fn" ELSE "rollback",
                           ![r].tr = Log(req[r],
                                <<"fnRaise", "rollback",
                                  IF SqliteRollbackOk THEN "rollbackOk"
                                                      ELSE "rollbackFail">>)]
            /\ sPending' = IF SqliteRollbackOk THEN {} ELSE sPending
            /\ inTx' = IF SqliteRollbackOk THEN FALSE ELSE inTx
            /\ UNCHANGED <<sqliteOpen, pragmas>>
    /\ UNCHANGED <<clientVars, mysqlVars, closeVars, committed, tables>>

\* connection.commit() settles: return through finally, or the catch block
MysqlCommitDone(r) ==
    /\ req[r].pc = "commit"
    /\ \E ok \in BOOLEAN :
        IF ok
        THEN /\ req' = [req EXCEPT ![r].pc = "done", ![r].pend = {},
                                   ![r].tr = Log(req[r], <<"commitOk", "release">>)]
             /\ committed' = committed \cup req[r].pend
        ELSE /\ req' = [req EXCEPT ![r].pc = "rollback", ![r].caught = "commit",
                                   ![r].tr = Log(req[r], <<"commitFail", "rollback">>)]
             /\ UNCHANGED committed
    /\ UNCHANGED <<clientVars, mysqlVars, closeVars, sqliteVars, tables>>

\* variant: release() at the end of the catch block instead of in finally
MysqlRollbackDoneNoFinally(r) ==
    /\ req[r].pc = "rollback"
    /\ \E ok \in BOOLEAN :
        req' = [req EXCEPT ![r].pc = "done", ![r].pend = {},
                           ![r].err = IF ok THEN req[r].caught ELSE "rollback",
                           ![r].tr = Log(req[r], IF ok THEN <<"rollbackOk", "release">>
                                                  ELSE <<"rollbackFail">>)]
    /\ UNCHANGED <<clientVars, mysqlVars, closeVars, sqliteVars, committed, tables>>

\* connection.rollback() settles inside the catch block: `throw error` when
\* it resolved, its own rejection otherwise; finally releases either way.
\* The uncommitted writes are gone in both cases (a rollback that fails is
\* a connection that is lost, and the server drops its transaction).
MysqlRollbackDone(r) ==
    /\ req[r].pc = "rollback"
    /\ \E ok \in BOOLEAN :
        req' = [req EXCEPT ![r].pc = "done", ![r].pend = {},
                           ![r].err = IF ok THEN req[r].caught ELSE "rollback",
                           ![r].tr = Log(req[r], IF ok THEN <<"rollbackOk", "release">>
                                                  ELSE <<"rollbackFail", "release">>)]
    /\ UNCHANGED <<clientVars, mysqlVars, closeVars, sqliteVars, committed, tables>>

(***************************************************************************)
(* Database.healthCheck, MysqlDriver.ping                                  *)
(***************************************************************************)
\* variant of ping(): the catch block rethrows
PingRethrows(obtained, ok) ==
    IF obtained /\ ok THEN [kind |-> "return", value |-> TRUE]
                      ELSE [kind |-> "raise", value |-> FALSE]

\* MysqlDriver.ping: how the call ends, getConnection() having returned a
\* pool or thrown, and `SELECT 1` having succeeded or failed
Ping(obtained, ok) == [kind |-> "return", value |-> obtained /\ ok]

\* `health[activeType] = await driver.ping()` inside the try block of
\* healthCheck(), whose catch block stores false
Pinged(p) == IF p.kind = "return" THEN p.value ELSE FALSE

\* variant: a record with a key for each kind of backend
HealthOfEveryKind(kind, ok) == [k \in {"mysql", "sqlite"} |-> k = kind /\ ok]

\* the health record: one key, the active kind
Health(kind, ok) == kind :> ok

\* variant: the catch block of healthCheck() rethrows
HealthStartRethrows(r) ==
    /\ req[r].pc = "idle"
    /\ IF ~Available
       THEN /\ req' = [req EXCEPT ![r].op = "health", ![r].pc = "done",
                                  ![r].err = "unavailable"]
            /\ UNCHANGED mysqlVars
       ELSE IF defaultDriver = "mysql"
       THEN \/ /\ UseGetConnection
               /\ req' = [req EXCEPT ![r].op = "health", ![r].pc = "ping",
                                     ![r].dead = (connection' \in ended)]
            \/ \* getConnection() throws inside the try block of ping()
               /\ CreatePoolThrows
               /\ req' = [req EXCEPT ![r].op = "health", ![r].pc = "done",
                                     ![r].native = Ping(FALSE, FALSE),
                                     ![r].res = Health(defaultDriver,
                                                       Pinged(Ping(FALSE, FALSE))),
                                     ![r].tr = <<"noPool">>]
       ELSE \E ok \in BOOLEAN :
            /\ ok => sqliteOpen
            /\ req' = [req EXCEPT ![r].op = "health", ![r].pc = "done",
                                  ![r].res = IF ok THEN Health(defaultDriver, ok) ELSE "none",
                                  ![r].err = IF ok THEN "none" ELSE "stmt",
                                  ![r].tr = <<IF ok THEN "stmtOk" ELSE "stmtFail">>]
            /\ UNCHANGED mysqlVars
    /\ UNCHANGED <<clientVars, closeVars, sqliteVars, committed, tables>>

\* the call up to its first await
HealthStart(r) ==
    /\ req[r].pc = "idle"
    /\ IF ~Available
       THEN \* getDefaultDriver() throws before the try block
            /\ req' = [req EXCEPT ![r].op = "health", ![r].pc = "done",
                                  ![r].err = "unavailable"]
            /\ UNCHANGED mysqlVars
       ELSE IF defaultDriver = "mysql"
       THEN \/ /\ UseGetConnection
               /\ req' = [req EXCEPT ![r].op = "health", ![r].pc = "ping",
                                     ![r].dead = (connection' \in ended)]
            \/ \* getConnection() throws inside the try block of ping()
               /\ CreatePoolThrows
               /\ req' = [req EXCEPT ![r].op = "health", ![r].pc = "done",
                                     ![r].native = Ping(FALSE, FALSE),
                                     ![r].res = Health(defaultDriver,
                                                       Pinged(Ping(FALSE, FALSE))),
                                     ![r].tr = <<"noPool">>]
       ELSE \E ok \in BOOLEAN :
            /\ ok => sqliteOpen
            /\ req' = [req EXCEPT ![r].op = "health", ![r].pc = "done",
                                  ![r].res = Health(defaultDriver, ok),
                                  ![r].tr = <<IF ok THEN "stmtOk" ELSE "stmtFail">>]
            /\ UNCHANGED mysqlVars
    /\ UNCHANGED <<clientVars, closeVars, sqliteVars, committed, tables>>

\* pool.execute("SELECT 1") settles inside ping()
PingDone(r) ==
    /\ req[r].pc = "ping"
    /\ \E ok \in BOOLEAN :
        /\ ok => ~req[r].dead
        /\ req' = [req EXCEPT ![r].pc = "done",
                              ![r].native = Ping(TRUE, ok),
                              ![r].res = Health(defaultDriver, Pinged(Ping(TRUE, ok))),
                              ![r].tr = <<IF ok THEN "stmtOk" ELSE "stmtFail">>]
    /\ UNCHANGED <<clientVars, mysqlVars, closeVars, sqliteVars, committed, tables>>

(***************************************************************************)
(* The /health handler of the web server: `await db.healthCheck()`, then   *)
(* db.getStats(), then the response.  status is the "status" field of the  *)
(* response.                                                               *)
(***************************************************************************)
\* the body of the try block and of the catch block
HealthStatus(raised) == IF raised THEN "unhealthy" ELSE "healthy"

\* the handler after healthCheck() has settled: getStats() raises when no
\* driver is registered, and MysqlDriver.getStats calls getConnection()
\* inside a try block of its own
HealthResponse(r) ==
    /\ req[r].op = "health" /\ req[r].pc = "done"
    /\ req[r].status = "none"
    /\ IF req[r].err # "none" \/ ~Available
       THEN /\ req' = [req EXCEPT ![r].status = HealthStatus(TRUE)]
            /\ UNCHANGED mysqlVars
       ELSE /\ req' = [req EXCEPT ![r].status = HealthStatus(FALSE)]
            /\ IF defaultDriver = "mysql"
               THEN UseGetConnection \/ CreatePoolThrows
               ELSE UNCHANGED mysqlVars
    /\ UNCHANGED <<clientVars, closeVars, sqliteVars, committed, tables>>

(***************************************************************************)
(* Database.tableExists, getTableSchema and runMigrations, and the         *)
(* drivers' tableExists / getTableSchema underneath.  The history records  *)
(* the introspection query ("found", "absent" or "stmtFail") and, for      *)
(* runMigrations, the CREATE TABLE ("ddl", then "ddlOk" or "ddlFail").     *)
(* prior records that an earlier runMigrations() had already returned      *)
(* without error when this call began, overlap the calls that were in      *)
(* flight when it began.                                                   *)
(***************************************************************************)
IntrospectOps == {"tableExists", "getTableSchema", "runMigrations"}

\* the outcome of the introspection query on a backend with tables ts
Introspected(ok, ts) ==
    IF ~ok THEN "stmtFail" ELSE IF "migrations" \in ts THEN "found" ELSE "absent"

\* MysqlDriver.tableExists / SQLiteDriver.tableExists: `count > 0` or
\* `result.length > 0`, and false from the catch block
TableExists(outcome) == IF outcome = "stmtFail" THEN FALSE ELSE outcome = "found"

\* MysqlDriver.getTableSchema / SQLiteDriver.getTableSchema: the rows, and
\* [] from the catch block
GetTableSchema(outcome) == IF outcome = "found" THEN "columns" ELSE "empty"

\* a runMigrations() call has returned without error
Migrated(q) == q.op = "runMigrations" /\ q.pc = "done" /\ q.err = "none"

\* the call up to its first await: the introspection query is issued (and,
\* on the embedded driver, executed synchronously)
IntrospectStart(r, op) ==
    /\ req[r].pc = "idle"
    /\ LET p == \E o \in Req : Migrated(req[o])
           f == {o \in Req : req[o].pc \notin {"idle", "done"}}
       IN  IF ~Available
           THEN /\ req' = [req EXCEPT ![r].op = op, ![r].pc = "done", ![r].prior = p,
                                      ![r].overlap = f, ![r].err = "unavailable"]
                /\ UNCHANGED mysqlVars
           ELSE IF defaultDriver = "mysql"
           THEN /\ UseGetConnection
                /\ req' = [req EXCEPT ![r].op = op, ![r].pc = "introspect",
                                      ![r].prior = p, ![r].overlap = f,
                                      ![r].dead = (connection' \in ended)]
           ELSE \E ok \in BOOLEAN :
                /\ ok => sqliteOpen
                /\ req' = [req EXCEPT ![r].op = op, ![r].pc = "introspected",
                                      ![r].prior = p, ![r].overlap = f,
                                      ![r].tr = <<Introspected(ok, tables)>>]
                /\ UNCHANGED mysqlVars
    /\ UNCHANGED <<clientVars, closeVars, sqliteVars, committed, tables>>

\* pool.query settles (networked driver)
IntrospectDone(r) ==
    /\ req[r].pc = "introspect"
    /\ \E ok \in BOOLEAN :
        /\ ok => ~req[r].dead
        /\ req' = [req EXCEPT ![r].pc = "introspected",
                              ![r].tr = <<Introspected(ok, tables)>>]
    /\ UNCHANGED <<clientVars, mysqlVars, closeVars, sqliteVars, committed, tables>>

\* the caller resumes with the driver's answer: tableExists and
\* getTableSchema return it; runMigrations returns when the table was
\* found and otherwise issues CREATE TABLE through Database.execute
IntrospectResume(r) ==
    /\ req[r].pc = "introspected"
    /\ LET answer == TableExists(req[r].tr[1])
       IN  IF req[r].op = "tableExists"
           THEN /\ req' = [req EXCEPT ![r].pc = "done", ![r].res = answer]
                /\ UNCHANGED <<mysqlVars, tables>>
           ELSE IF req[r].op = "getTableSchema"
           THEN /\ req' = [req EXCEPT ![r].pc = "done",
                                      ![r].res = GetTableSchema(req[r].tr[1])]
                /\ UNCHANGED <<mysqlVars, tables>>
           ELSE IF answer
           THEN /\ req' = [req EXCEPT ![r].pc = "done"]
                /\ UNCHANGED <<mysqlVars, tables>>
           ELSE IF ~Available
           THEN /\ req' = [req EXCEPT ![r].pc = "done", ![r].err = "unavailable"]
                /\ UNCHANGED <<mysqlVars, tables>>
           ELSE IF defaultDriver = "mysql"
           THEN /\ UseGetConnection
                /\ req' = [req EXCEPT ![r].pc = "create",
                                      ![r].dead = (connection' \in ended),
                                      ![r].tr = Log(req[r], <<"ddl">>)]
                /\ UNCHANGED tables
           ELSE \E ok \in BOOLEAN :
                /\ ok => (sqliteOpen /\ "migrations" \notin tables)
                /\ req' = [req EXCEPT ![r].pc = "done",
                                      ![r].err = IF ok THEN "none" ELSE "stmt",
                                      ![r].tr = Log(req[r],
                                            <<"ddl", IF ok THEN "ddlOk" ELSE "ddlFail">>)]
                /\ tables' = IF ok THEN tables \cup {"migrations"} ELSE tables
                /\ UNCHANGED mysqlVars
    /\ UNCHANGED <<clientVars, closeVars, sqliteVars, committed>>

\* pool.execute of the CREATE TABLE settles (networked driver); the backend
\* rejects it when the table exists
CreateDone(r) ==
    /\ req[r].pc = "create"
    /\ \E ok \in BOOLEAN :
        /\ ok => (~req[r].dead /\ "migrations" \notin tables)
        /\ req' = [req EXCEPT ![r].pc = "done",
                              ![r].err = IF ok THEN "none" ELSE "stmt",
                              ![r].tr = Log(req[r], <<IF ok THEN "ddlOk" ELSE "ddlFail">>)]
        /\ tables' = IF ok THEN tables \cup {"migrations"} ELSE tables
    /\ UNCHANGED <<clientVars, mysqlVars, closeVars, sqliteVars, committed>>

(***************************************************************************)
(* Database.query, execute and queryOne with their results.  native is     *)
(* what the backend answered: the rows a SELECT matched, or the change     *)
(* count and last inserted row id of a mutating statement.  A JavaScript   *)
(* value is a record tagged with its kind; a row is a string.              *)
(***************************************************************************)
StmtOps == {"query", "execute", "queryOne"}

\* the rows a SELECT can match
ResultSets == {<<>>, <<"a">>, <<"b", "a">>}

\* the replies to a mutating statement: nothing changed and no row ever
\* inserted, rows changed by an UPDATE, a row inserted
RunResults ==
    {[changes |-> 0, lastInsertRowid |-> 0],
     [changes |-> 2, lastInsertRowid |-> 0],
     [changes |-> 1, lastInsertRowid |-> 3]}

Natives(op) == IF op = "execute" THEN RunResults ELSE ResultSets

Array(items) == [kind |-> "array", items |-> items]
Undefined == [kind |-> "undefined"]

\* `x || 0`
OrZero(x) == IF x = 0 THEN 0 ELSE x

\* SQLiteDriver.query: [result, {insertId: 0, affectedRows: result.length, changedRows: 0}]
SqliteQuery(result) ==
    <<Array(result),
      [kind |-> "object", insertId |-> 0, affectedRows |-> Len(result),
       changedRows |-> 0]>>

\* variant: execute() reporting the change count as the inserted id
SqliteExecuteChangesAsId(result) ==
    <<Array(<<>>),
      [kind |-> "object", insertId |-> result.changes,
       affectedRows |-> result.changes, changedRows |-> result.changes]>>

\* SQLiteDriver.execute: [[], {insertId, affectedRows, changedRows}] from stmt.run
SqliteExecute(result) ==
    <<Array(<<>>),
      [kind |-> "object", insertId |-> OrZero(result.lastInsertRowid),
       affectedRows |-> result.changes, changedRows |-> result.changes]>>

\* what pool.query / pool.execute resolve to, `[T, any]` with T a
\* QueryResult of the pool library: the rows and the column descriptions of
\* a SELECT, the result header of a mutating statement and no columns
PoolReply(op, answer) ==
    IF op = "execute"
    THEN <<[kind |-> "object", insertId |-> answer.lastInsertRowid,
            affectedRows |-> answer.changes, changedRows |-> answer.changes,
            fieldCount |-> 0],
           Undefined>>
    ELSE <<Array(answer), Array(<<"columns">>)>>

\* MysqlDriver.query / execute: `return await pool.query(sql, parameters)`
MysqlResult(op, answer) == PoolReply(op, answer)

\* the active driver's query / execute
DriverResult(kind, op, answer) ==
    IF kind = "mysql" THEN MysqlResult(op, answer)
    ELSE IF op = "execute" THEN SqliteExecute(answer)
    ELSE SqliteQuery(answer)

\* variant: queryOne returning `results[0]`
QueryOneIndexed(results) ==
    IF results.kind = "array" /\ Len(results.items) > 0
    THEN results.items[1] ELSE "undefined"

\* Database.queryOne, from the first element of query()'s result
QueryOne(results) ==
    LET firstResult == IF results.kind = "array" /\ Len(results.items) > 0
                       THEN results.items[1] ELSE "undefined"
    IN  IF firstResult # "undefined" THEN firstResult ELSE "null"

\* what the client call returns
ClientResult(kind, op, answer) ==
    IF op = "queryOne" THEN QueryOne(DriverResult(kind, "query", answer)[1])
    ELSE DriverResult(kind, op, answer)

\* the call up to its first await; the embedded driver runs the statement
\* synchronously inside the promise it returns
StmtStart(r, op) ==
    /\ req[r].pc = "idle"
    /\ IF ~Available
       THEN /\ req' = [req EXCEPT ![r].op = op, ![r].pc = "done",
                                  ![r].err = "unavailable"]
            /\ UNCHANGED <<mysqlVars, sPending, committed>>
       ELSE IF defaultDriver = "mysql"
       THEN /\ UseGetConnection
            /\ req' = [req EXCEPT ![r].op = op, ![r].pc = "stmt",
                                  ![r].dead = (connection' \in ended)]
            /\ UNCHANGED <<sPending, committed>>
       ELSE \E ok \in BOOLEAN, answer \in Natives(op) :
            /\ ok => sqliteOpen
            /\ IF ok
               THEN /\ req' = [req EXCEPT ![r].op = op, ![r].pc = "done",
                                   ![r].native = answer,
                                   ![r].n = IF op = "execute" THEN 1 ELSE 0,
                                   ![r].res = ClientResult("sqlite", op, answer),
                                   ![r].tr = <<"stmtOk">>]
                    /\ sPending' = IF op = "execute" /\ inTx
                                   THEN sPending \cup {<<r, 1>>} ELSE sPending
                    /\ committed' = IF op = "execute" /\ ~inTx
                                    THEN committed \cup {<<r, 1>>} ELSE committed
               ELSE /\ answer = CHOOSE a \in Natives(op) : TRUE
                    /\ req' = [req EXCEPT ![r].op = op, ![r].pc = "done",
                                   ![r].err = "stmt", ![r].tr = <<"stmtFail">>]
                    /\ UNCHANGED <<sPending, committed>>
            /\ UNCHANGED mysqlVars
    /\ UNCHANGED <<clientVars, closeVars, sqliteOpen, pragmas, inTx, tables>>

\* pool.query / pool.execute settles (networked driver)
StmtDone(r) ==
    /\ req[r].pc = "stmt"
    /\ \E ok \in BOOLEAN, answer \in Natives(req[r].op) :
        /\ ok => ~req[r].dead
        /\ IF ok
           THEN /\ req' = [req EXCEPT ![r].pc = "done", ![r].native = answer,
                                ![r].n = IF req[r].op = "execute" THEN 1 ELSE 0,
                                ![r].res = ClientResult("mysql", req[r].op, answer),
                                ![r].tr = <<"stmtOk">>]
                /\ committed' = IF req[r].op = "execute"
                                THEN committed \cup {<<r, 1>>} ELSE committed
           ELSE /\ answer = CHOOSE a \in Natives(req[r].op) : TRUE
                /\ req' = [req EXCEPT ![r].pc = "done", ![r].err = "stmt",
                                ![r].tr = <<"stmtFail">>]
                /\ UNCHANGED committed
    /\ UNCHANGED <<clientVars, mysqlVars, closeVars, sqliteVars, tables>>

(***************************************************************************)
(* The drivers' own queryOne, called on the driver that getDefaultDriver() *)
(* returns.  The outcome of the driver's query() is a promise that         *)
(* resolved with its result or was rejected; queryOne returns a value or   *)
(* raises.                                                                 *)
(***************************************************************************)
Resolved(value) == [kind |-> "resolved", value |-> value]
Rejected == [kind |-> "rejected"]

Return(value) == [kind |-> "return", value |-> value]
Raise == [kind |-> "raise"]

\* `results.length > 0 ? results[0] : null`
FirstOrNull(results) == IF Len(results.items) > 0 THEN results.items[1] ELSE "null"

\* SQLiteDriver.queryOne: the catch block returns null
SqliteQueryOne(outcome) ==
    IF outcome.kind = "rejected" THEN Return("null")
    ELSE Return(FirstOrNull(outcome.value[1]))

\* MysqlDriver.queryOne: no try block, the rejection reaches the caller
MysqlQueryOne(outcome) ==
    IF outcome.kind = "rejected" THEN Raise
    ELSE Return(FirstOrNull(outcome.value[1]))

DriverQueryOne(kind, outcome) ==
    IF kind = "mysql" THEN MysqlQueryOne(outcome) ELSE SqliteQueryOne(outcome)

\* the caller's locals once the driver's queryOne has settled
AfterDriverQueryOne(q, kind, ok, answer) ==
    LET out == DriverQueryOne(kind, IF ok THEN Resolved(DriverResult(kind, "query", answer))
                                          ELSE Rejected)
    IN  [q EXCEPT !.op = "driver.queryOne", !.pc = "done",
                  !.native = IF ok THEN answer ELSE q.native,
                  !.res = IF out.kind = "return" THEN out.value ELSE q.res,
                  !.err = IF out.kind = "raise" THEN "stmt" ELSE "none",
                  !.tr = <<IF ok THEN "stmtOk" ELSE "stmtFail">>]

\* the call up to its first await; the embedded driver runs the statement
\* synchronously inside the promise that query() returns
DriverQueryOneStart(r) ==
    /\ req[r].pc = "idle"
    /\ IF ~Available
       THEN /\ req' = [req EXCEPT ![r].op = "driver.queryOne", ![r].pc = "done",
                                  ![r].err = "unavailable"]
            /\ UNCHANGED mysqlVars
       ELSE IF defaultDriver = "mysql"
       THEN /\ UseGetConnection
            /\ req' = [req EXCEPT ![r].op = "driver.queryOne", ![r].pc = "one",
                                  ![r].dead = (connection' \in ended)]
       ELSE \E ok \in BOOLEAN, answer \in ResultSets :
            /\ ok => sqliteOpen
            /\ ~ok => answer = <<>>
            /\ req' = [req EXCEPT ![r] = AfterDriverQueryOne(req[r], "sqlite", ok, answer)]
            /\ UNCHANGED mysqlVars
    /\ UNCHANGED <<clientVars, closeVars, sqliteVars, committed, tables>>

\* pool.query settles inside MysqlDriver.queryOne
DriverQueryOneDone(r) ==
    /\ req[r].pc = "one"
    /\ \E ok \in BOOLEAN, answer \in ResultSets :
        /\ ok => ~req[r].dead
        /\ ~ok => answer = <<>>
        /\ req' = [req EXCEPT ![r] = AfterDriverQueryOne(req[r], "mysql", ok, answer)]
    /\ UNCHANGED <<clientVars, mysqlVars, closeVars, sqliteVars, committed, tables>>

(***************************************************************************)
(* Database.getInstance.  Clients are numbered in the order they are       *)
(* constructed; the module constructs the first one when it is loaded      *)
(* (`export const db = Database.getInstance()`).                           *)
(***************************************************************************)
\* variant: getInstance() without the `if (!Database.instance)` test
InstanceAlwaysNew(inst, n) == n + 1

\* the client getInstance() returns, n clients having been constructed
Instance(inst, n) == IF inst = NoInstance THEN n + 1 ELSE inst

GetInstance(r) ==
    /\ req[r].pc = "idle"
    /\ LET i == Instance(instance, clients)
       IN  /\ instance' = i
           /\ req' = [req EXCEPT ![r].op = "getInstance", ![r].pc = "done", ![r].res = i]
           /\ IF i = instance
              THEN UNCHANGED <<defaultDriver, drivers, clients, mysqlVars, sqliteVars>>
              ELSE \* new Database(): initializeDrivers() constructs the driver
                   /\ clients' = clients + 1
                   /\ defaultDriver' = InitializeDrivers(env)
                   /\ drivers' = {InitializeDrivers(env)}
                   /\ IF InitializeDrivers(env) = "mysql"
                      THEN /\ nextPool < MaxPools
                           /\ LET d == Initialize(NoPool, FALSE, nextPool)
                              IN  /\ connection' = d.connection
                                  /\ isInitialized' = d.isInitialized
                                  /\ nextPool' = d.nextPool
                           /\ closeCalled' = FALSE
                           /\ UNCHANGED <<ended, handedDead, lazyPools, sqliteVars>>
                      ELSE /\ sqliteOpen' = TRUE
                           /\ \E failAt \in PragmaOutcomes :
                                pragmas' = InitializeConnection(failAt)
                           /\ inTx' = FALSE
                           /\ sPending' = {}
                           /\ UNCHANGED mysqlVars
    /\ UNCHANGED <<env, closeVars, committed, tables>>

\* the client's statements and health probes, the pool's error events and
\* shutdown, for every configuration of the environment
Next ==
    \/ \E r \in Req : GetInstance(r)
    \/ \E r \in Req : ExecStart(r)
    \/ \E r \in Req : ExecDone(r)
    \/ \E r \in Req : HealthStart(r)
    \/ \E r \in Req : PingDone(r)
    \/ \E p \in 1..MaxPools, code \in ErrorCodes : PoolError(p, code)
    \/ CloseAllStart
    \/ MysqlCloseResume
    \/ CloseAllFinish

Spec == Init /\ [][Next]_vars

\* transactions of both backends, interleaved with one another, with
\* statements outside any transaction and with shutdown, under a complete
\* configuration
InitTx == Init /\ env.type # "" /\ env.host # "" /\ env.user # ""

NextTx ==
    \/ \E r \in Req : ExecStart(r)
    \/ \E r \in Req : ExecDone(r)
    \/ \E r \in Req : TxStart(r)
    \/ \E r \in Req : MysqlAcquireDone(r)
    \/ \E r \in Req : MysqlBeginDone(r)
    \/ \E r \in Req : FnWrite(r)
    \/ \E r \in Req : FnExecuteOnArg(r)
    \/ \E r \in Req : FnReturn(r)
    \/ \E r \in Req : FnRaise(r)
    \/ \E r \in Req : MysqlCommitDone(r)
    \/ \E r \in Req : MysqlRollbackDone(r)
    \/ CloseAllStart
    \/ MysqlCloseResume
    \/ CloseAllFinish

SpecTx == InitTx /\ [][NextTx]_vars

\* introspection, migrations, the statements' results and the drivers' own
\* queryOne, on both backends
\* under a complete configuration
InitOps == Init /\ env.type # "" /\ env.host # "" /\ env.user # ""

NextOps ==
    \/ \E r \in Req, op \in StmtOps : StmtStart(r, op)
    \/ \E r \in Req : StmtDone(r)
    \/ \E r \in Req : DriverQueryOneStart(r)
    \/ \E r \in Req : DriverQueryOneDone(r)
    \/ \E r \in Req, op \in IntrospectOps : IntrospectStart(r, op)
    \/ \E r \in Req : IntrospectDone(r)
    \/ \E r \in Req : IntrospectResume(r)
    \/ \E r \in Req : CreateDone(r)

SpecOps == InitOps /\ [][NextOps]_vars

\* shutdown, and the calls made on the client once closeAll() has returned
InitClosed == Init /\ env.type # "" /\ env.host # "" /\ env.user # ""

NextClosed ==
    \/ CloseAllStart
    \/ MysqlCloseResume
    \/ CloseAllFinish
    \/ \E r \in Req, op \in StmtOps : cpc = "done" /\ StmtStart(r, op)
    \/ \E r \in Req : cpc = "done" /\ TxStart(r)
    \/ \E r \in Req, op \in IntrospectOps : cpc = "done" /\ IntrospectStart(r, op)
    \/ \E r \in Req : CloseAllAgain(r)

SpecClosed == InitClosed /\ [][NextClosed]_vars

\* the /health handler on both backends, interleaved with shutdown, under a
\* complete configuration
InitHealth == Init /\ env.type # "" /\ env.host # "" /\ env.user # ""

NextHealth ==
    \/ \E r \in Req : HealthStart(r)
    \/ \E r \in Req : PingDone(r)
    \/ \E r \in Req : HealthResponse(r)
    \/ CloseAllStart
    \/ MysqlCloseResume
    \/ CloseAllFinish

SpecHealth == InitHealth /\ [][NextHealth]_vars

(***************************************************************************)
(* Properties                                                              *)
(***************************************************************************)
TxDone(r) == req[r].op = "tx" /\ req[r].pc = "done"
ReachedDriver(r) == req[r].err # "unavailable"

\* the call obtained its connection (networked) or began its transaction
Begun(q) == Has(q, "acquireOk") \/ Has(q, "beginOk")

\* what the client's single connection (embedded) or any other connection
\* (networked) sees of the database
Visible == committed \cup sPending

\* C1, as stated: every transaction(fn) call (one that got as far as its
\* connection or its BEGIN, so that there is a transaction to end) executes
\* exactly one of commit and rollback before it returns: commit if and only
\* if fn completed without error, rollback otherwise, never both.
TxExactlyOneOfCommitRollback ==
    \A r \in Req :
        (TxDone(r) /\ Begun(req[r])) =>
            /\ Has(req[r], "commit") <=> Has(req[r], "fnOk")
            /\ Has(req[r], "rollback") <=> ~Has(req[r], "fnOk")

\* C1, amended: a call that obtained its connection or began its transaction
\* executes commit iff fn completed without error and rollback iff
\* beginTransaction, fn or commit failed; at least one of the two, each at
\* most once, and no rollback after a commit that succeeded.  A call that
\* fails before that point executes neither.
TxCommitOrRollbackOnEveryPath ==
    \A r \in Req :
        LET q == req[r]
        IN  /\ Count(q, "commit") <= 1
            /\ Count(q, "rollback") <= 1
            /\ TxDone(r) =>
                IF Begun(q)
                THEN /\ Has(q, "commit") <=> Has(q, "fnOk")
                     /\ Has(q, "rollback") <=>
                            (Has(q, "beginFail") \/ Has(q, "fnRaise") \/ Has(q, "commitFail"))
                     /\ Has(q, "commit") \/ Has(q, "rollback")
                     /\ Has(q, "commitOk") => ~Has(q, "rollback")
                ELSE ~Has(q, "commit") /\ ~Has(q, "rollback")

\* a call whose commit failed and was then rolled back, and a call of the
\* other request that ended before its transaction began
TxCommitFailedThenRolledBack ==
    \E r, o \in Req :
        /\ TxDone(r) /\ Has(req[r], "commitFail") /\ Has(req[r], "rollbackOk")
        /\ TxDone(o) /\ ReachedDriver(o) /\ ~Begun(req[o])

\* C2: when fn raised inside transaction(fn), none of the writes fn made
\* before raising is visible once the call has returned, on either backend.
NoPartialWritesAfterRaise ==
    \A r \in Req :
        (TxDone(r) /\ Has(req[r], "fnRaise")) =>
            \A k \in 1..req[r].n : <<r, k>> \notin Visible

\* fn wrote, then raised, and the call has returned
TxRaisedAfterWrite ==
    \E r \in Req : TxDone(r) /\ Has(req[r], "fnRaise") /\ req[r].n >= 1

\* C3: the networked transaction releases its pool connection exactly once
\* on every exit path, never before commit or rollback has been attempted,
\* and when no transaction is running none holds a connection.
Holds(q) == Has(q, "acquireOk") /\ ~Has(q, "release")

ConnectionReleasedExactlyOnce ==
    /\ \A r \in Req :
        LET q == req[r]
        IN  /\ Count(q, "release") <= 1
            /\ Has(q, "release") =>
                /\ Has(q, "acquireOk")
                /\ Before(q, "commit", "release") \/ Before(q, "rollback", "release")
            /\ (TxDone(r) /\ Has(q, "acquireOk")) => Count(q, "release") = 1
    /\ (\A r \in Req : req[r].pc \in {"idle", "done"}) =>
            \A r \in Req : ~Holds(req[r])

\* every request ran a networked transaction to its end, one of them through
\* a rollback that failed
TxReleasedAfterFailedRollback ==
    /\ \A r \in Req : TxDone(r) /\ Has(req[r], "release")
    /\ \E r \in Req : Has(req[r], "rollbackFail")

\* C4, as stated: when fn raises inside transaction(fn), rollback is executed
\* before the caller gets the error, and the error the caller gets is the
\* one fn raised, also when the rollback fails.
OriginalErrorPreserved ==
    \A r \in Req :
        (TxDone(r) /\ Has(req[r], "fnRaise")) =>
            /\ Has(req[r], "rollback")
            /\ req[r].err = "fn"

HealthDone(r) == req[r].op = "health" /\ req[r].pc = "done"

\* C5, as stated: after the client is initialized healthCheck() never raises
\* and returns {activeKind: true} when the probe of the active backend
\* succeeds, {activeKind: false} when it fails.
HealthCheckNeverRaises ==
    \A r \in Req :
        HealthDone(r) =>
            /\ req[r].err = "none"
            /\ req[r].res = (defaultDriver :> Has(req[r], "stmtOk"))

\* C5, amended: as long as the active driver is registered healthCheck()
\* does not raise and returns {activeKind: probe succeeded}; it raises only
\* once closeAll() has cleared the registry.
HealthCheckRaisesOnlyAfterCloseAll ==
    \A r \in Req :
        HealthDone(r) =>
            IF req[r].err = "none"
            THEN req[r].res = (defaultDriver :> Has(req[r], "stmtOk"))
            ELSE req[r].err = "unavailable" /\ cpc = "done"

\* one health check reported true and another false, shutdown not begun
HealthTrueAndFalse ==
    \E r, o \in Req :
        /\ HealthDone(r) /\ req[r].res = (defaultDriver :> TRUE)
        /\ HealthDone(o) /\ req[o].res = (defaultDriver :> FALSE)
        /\ cpc = "idle"

\* C6, as stated: once close() has been called on the networked driver, no
\* later call and no late error event creates a pool on it.
ClosedDriverCreatesNoPool == [][closeCalled => nextPool' = nextPool]_vars

\* C7, as stated: getConnection() never returns a pool on which end() has
\* already been invoked.
NeverHandsOutEndedPool == ~handedDead

\* C8: a connection-lost or connection-reset error, from a pool or one of
\* its connections, ends the current pool and puts a newly created one in
\* its place; an error of another class leaves the pool as it is; and the
\* driver's pool reference only ever moves to a pool that did not exist
\* before.
PoolReplacedWholesale ==
    [][ /\ \A p \in 1..MaxPools, code \in ErrorCodes :
            PoolError(p, code) =>
                IF code \in FatalCodes
                THEN /\ connection' = nextPool + 1
                     /\ connection' \notin ended'
                     /\ isInitialized'
                     /\ connection # NoPool => connection \in ended'
                ELSE connection' = connection /\ ended' = ended
        /\ (connection' # connection /\ connection' # NoPool) =>
                connection' > nextPool
      ]_vars

\* a fatal error has replaced the first pool, and a statement is in flight
\* on its successor
PoolReplacedAfterFatalError ==
    /\ ~closeCalled
    /\ nextPool >= 2
    /\ connection = nextPool
    /\ 1..(nextPool - 1) \subseteq ended
    /\ \E r \in Req : req[r].pc \in {"await", "ping"} /\ ~req[r].dead

\* C10, as stated: with DATABASE_TYPE=mysql and DB_HOST or DB_USER missing,
\* the client registers the embedded driver, makes it the active backend
\* and constructs no networked driver.
IncompleteMysqlConfigFallsBack ==
    (env.type = "mysql" /\ (env.host = "" \/ env.user = "")) =>
        /\ defaultDriver = "sqlite"
        /\ nextPool = 0

GetInstanceDone(r) == req[r].op = "getInstance" /\ req[r].pc = "done"

\* C11: from construction until closeAll() clears it, the registry holds
\* exactly one driver, registered under the active kind; the active kind is
\* the one chosen at construction and never changes; one client is ever
\* constructed and every getInstance() returns it.
ExactlyOneActiveBackend ==
    /\ cpc # "done" => (Cardinality(drivers) = 1 /\ drivers = {defaultDriver})
    /\ defaultDriver = (IF OrDefault(env.type, "sqlite") = "mysql" THEN "mysql" ELSE "sqlite")
    /\ clients = 1
    /\ instance = 1
    /\ \A r \in Req : GetInstanceDone(r) => req[r].res = 1

\* getInstance() was called before shutdown and again while closeAll() was
\* awaiting the close of the networked driver, whose pool had been replaced
SameClientBeforeAndDuringCloseAll ==
    /\ \A r \in Req : GetInstanceDone(r)
    /\ cpc = "awaiting"
    /\ closePc = "ending"
    /\ nextPool >= 2

\* C12: healthCheck() reports one key, the active kind; the backend of the
\* other kind is never constructed (no pool when the embedded backend is
\* active, no embedded handle when the networked one is) and never pinged.
HealthCheckOnlyActiveBackend ==
    /\ \A r \in Req :
        /\ (HealthDone(r) /\ req[r].err = "none") => DOMAIN req[r].res = {defaultDriver}
        /\ req[r].pc = "ping" => defaultDriver = "mysql"
    /\ defaultDriver = "sqlite" => (nextPool = 0 /\ connection = NoPool)
    /\ defaultDriver = "mysql" => ~sqliteOpen

\* one health check has returned its record while another is awaiting its
\* ping of the networked backend
HealthReportedWhilePinging ==
    \E r, o \in Req :
        /\ HealthDone(r) /\ req[r].err = "none"
        /\ req[o].pc = "ping"

\* C13, as stated: a runMigrations() call made after an earlier one has
\* returned finds the table by introspection, issues no CREATE TABLE and
\* does not raise.
RunMigrationsIdempotent ==
    \A r \in Req :
        (req[r].op = "runMigrations" /\ req[r].pc = "done" /\ req[r].prior) =>
            /\ ~Has(req[r], "ddl")
            /\ req[r].err = "none"

Returned(r, op) == req[r].op = op /\ req[r].pc = "done"

\* C14: the client's queryOne returns null when the query matched no row
\* and the first row when it matched any; in neither case does it raise or
\* return undefined.
QueryOneNullWhenNoRow ==
    \A r \in Req :
        (Returned(r, "queryOne") /\ Has(req[r], "stmtOk")) =>
            /\ req[r].err = "none"
            /\ req[r].res # "undefined"
            /\ req[r].res = IF req[r].native = <<>> THEN "null" ELSE Head(req[r].native)

\* one queryOne matched no row and another matched two
QueryOneOnEmptyAndOnRows ==
    \E r, o \in Req :
        /\ Returned(r, "queryOne") /\ Has(req[r], "stmtOk") /\ req[r].native = <<>>
        /\ Returned(o, "queryOne") /\ Has(req[o], "stmtOk") /\ Len(req[o].native) = 2

\* C15, as stated: when a statement of the active driver fails inside
\* query, execute, tableExists, getTableSchema or runMigrations, the client
\* call ends with an error and not with a return value.
DriverErrorsReachCaller ==
    \A r \in Req :
        ( /\ req[r].pc = "done"
          /\ req[r].op \in {"query", "execute"} \cup IntrospectOps
          /\ Has(req[r], "stmtFail") \/ Has(req[r], "ddlFail") ) =>
            req[r].err # "none"

\* C16, as stated: closeAll() clears the registry only when the close of
\* every registered driver has completed, and at the moment it returns every
\* pool ever created has been ended and the embedded handle is closed.
CloseAllShutsEverythingDown ==
    [][ CloseAllFinish =>
            /\ closePc = "done"
            /\ \A p \in 1..nextPool : p \in ended
            /\ ~sqliteOpen
      ]_vars

\* C17, as stated: on the embedded driver a transaction(fn) call that
\* begins while another call's transaction is open on the connection (its
\* fn suspended) is not rejected for that reason.
OverlappingEmbeddedTransactionsSerialize ==
    [][ \A r \in Req :
            ( /\ TxStart(r)
              /\ defaultDriver = "sqlite" /\ Available /\ sqliteOpen
              /\ inTx /\ \E o \in Req : req[o].pc = "fn" ) =>
                req'[r].err # "begin"
      ]_vars

\* C18, as stated: a statement fn executes through the argument it was
\* called with is executed inside the transaction, on the networked and on
\* the embedded backend alike; the call never fails for want of a handle.
CallbackHandleWorksOnBothBackends ==
    \A r \in Req : ~Has(req[r], "typeError")

SummaryKeys == {"kind", "insertId", "affectedRows", "changedRows"}
IsSummary(v) == v.kind = "object" /\ DOMAIN v = SummaryKeys

\* C19, as stated: on either driver query returns (rows, summary with
\* insertId, affectedRows, changedRows) and execute returns (empty rows,
\* summary with the inserted id and the affected-row count).
DriversReturnNormalizedShape ==
    \A r \in Req :
        /\ (Returned(r, "query") /\ req[r].err = "none") =>
                /\ req[r].res[1].kind = "array"
                /\ req[r].res[1].items = req[r].native
                /\ IsSummary(req[r].res[2])
        /\ (Returned(r, "execute") /\ req[r].err = "none") =>
                /\ req[r].res[1].kind = "array"
                /\ req[r].res[1].items = <<>>
                /\ IsSummary(req[r].res[2])
                /\ req[r].res[2].affectedRows = req[r].native.changes

\* C20: on the embedded driver query returns the rows and the summary
\* {insertId: 0, affectedRows: number of rows, changedRows: 0}; execute
\* returns no rows and a summary whose affectedRows is the backend's change
\* count and whose insertId is the last inserted row id, 0 when there is
\* none.
EmbeddedResultSummaries ==
    \A r \in Req :
        (defaultDriver = "sqlite" /\ req[r].pc = "done" /\ req[r].err = "none") =>
            /\ req[r].op = "query" =>
                    /\ req[r].res[1] = [kind |-> "array", items |-> req[r].native]
                    /\ req[r].res[2] = [kind |-> "object", insertId |-> 0,
                                        affectedRows |-> Len(req[r].native),
                                        changedRows |-> 0]
            /\ req[r].op = "execute" =>
                    /\ req[r].res[1] = [kind |-> "array", items |-> <<>>]
                    /\ IsSummary(req[r].res[2])
                    /\ req[r].res[2].affectedRows = req[r].native.changes
                    /\ req[r].res[2].insertId = req[r].native.lastInsertRowid

\* on the embedded driver a query has returned two rows and an execute has
\* inserted a row
EmbeddedQueryAndInsertReturned ==
    /\ defaultDriver = "sqlite"
    /\ \E r, o \in Req :
        /\ Returned(r, "query") /\ req[r].err = "none" /\ Len(req[r].native) = 2
        /\ Returned(o, "execute") /\ req[o].err = "none"
        /\ req[o].native.lastInsertRowid > 0

(***************************************************************************)
(* C21: on the embedded driver no statement (query, execute, or the BEGIN  *)
(* of a transaction) executes on a connection on which foreign-key         *)
(* enforcement or WAL journal mode failed to be applied.                   *)
(***************************************************************************)
StatementsOnlyWithPragmasApplied ==
    defaultDriver = "sqlite" =>
        \A r \in Req :
            (Has(req[r], "stmtOk") \/ Has(req[r], "beginOk")) =>
                {"journal_mode = WAL", "foreign_keys = ON"} \subseteq pragmas

(***************************************************************************)
(* C23: the networked driver's ping() never raises: it returns true when   *)
(* `SELECT 1` succeeded and false on every failure, also when              *)
(* getConnection() could not obtain a pool.                                *)
(***************************************************************************)
PingCalled(r) == HealthDone(r) /\ defaultDriver = "mysql" /\ req[r].tr # <<>>

PingNeverRaises ==
    \A r \in Req :
        PingCalled(r) =>
            req[r].native = [kind |-> "return", value |-> Has(req[r], "stmtOk")]

\* one ping answered true, another could not obtain a pool and answered false
PingTrueAndPingWithoutPool ==
    \E r, o \in Req :
        /\ PingCalled(r) /\ req[r].tr = <<"stmtOk">> /\ req[r].native.value
        /\ PingCalled(o) /\ req[o].tr = <<"noPool">> /\ ~req[o].native.value

(***************************************************************************)
(* C24: a connection-lost or connection-reset error raised by a pool that  *)
(* the driver has already discarded, or by one of its connections, leaves  *)
(* the driver's current pool in place.                                     *)
(***************************************************************************)
DiscardedPoolErrorsKeepCurrentPool ==
    [][\A p \in 1..MaxPools, code \in FatalCodes :
          (PoolError(p, code) /\ p \in ended /\ p # connection) =>
              (connection' = connection /\ ended' = ended)]_vars

(***************************************************************************)
(* C25: on the embedded backend a write that one request executed outside  *)
(* any transaction, and that was reported to it as successful, survives    *)
(* the rollback of another request's transaction.                          *)
(***************************************************************************)
WroteOutsideTransaction(o) ==
    /\ req[o].op = "exec" /\ req[o].pc = "done" /\ req[o].err = "none"
    /\ Has(req[o], "stmtOk")

RollbackSparesOtherRequestsWrites ==
    [][\A r, o \in Req :
          ( /\ defaultDriver = "sqlite" /\ r # o
            /\ WroteOutsideTransaction(o)
            /\ <<o, 1>> \in committed \cup sPending
            /\ ~Has(req[r], "rollbackOk") /\ Has(req'[r], "rollbackOk") )
          => <<o, 1>> \in committed' \cup sPending']_vars

(***************************************************************************)
(* C26: two runMigrations() calls in flight at the same time, against a    *)
(* database without the migrations table and with no statement failing     *)
(* for another reason, issue CREATE TABLE at most once in total, and       *)
(* neither call raises.                                                    *)
(***************************************************************************)
MigrationsOverlap(r, o) ==
    /\ r # o
    /\ req[r].op = "runMigrations" /\ req[o].op = "runMigrations"
    /\ o \in req[r].overlap
    /\ ~req[r].prior /\ ~req[o].prior
    /\ ~Has(req[r], "stmtFail") /\ ~Has(req[o], "stmtFail")
    /\ \A q \in {r, o} : Has(req[q], "ddlFail") => "migrations" \in tables

ConcurrentMigrationsCreateOnce ==
    \A r, o \in Req :
        MigrationsOverlap(r, o) =>
            /\ Count(req[r], "ddl") + Count(req[o], "ddl") <= 1
            /\ \A q \in {r, o} :
                   (req[q].pc = "done" /\ "migrations" \in tables) => req[q].err = "none"

(***************************************************************************)
(* C27: once closeAll() has returned, every pool that a request's          *)
(* getConnection() created while closeAll() was under way has been ended:  *)
(* no query or ping interleaved with the shutdown leaves an open pool      *)
(* behind the cleared registry.                                            *)
(***************************************************************************)
RequestsLeaveNoPoolBehindCloseAll ==
    (cpc = "done" /\ drivers = {}) => lazyPools \subseteq ended

(***************************************************************************)
(* C28: after closeAll() has returned the client is terminally closed:     *)
(* every later query, execute, queryOne, transaction, tableExists or       *)
(* runMigrations call raises "driver is not available" without             *)
(* constructing a driver or touching a backend, and a second closeAll()    *)
(* returns without raising and changes nothing.                            *)
(***************************************************************************)
ClosedClientIsTerminal ==
    [][cpc = "done" =>
          /\ drivers' = {} /\ clients' = clients /\ instance' = instance
          /\ mysqlVars' = mysqlVars /\ sqliteVars' = sqliteVars
          /\ committed' = committed /\ tables' = tables
          /\ \A r \in Req :
                 req'[r] # req[r] =>
                     /\ req'[r].pc = "done" /\ req'[r].tr = <<>>
                     /\ req'[r].res = "none"
                     /\ req'[r].err = IF req'[r].op = "closeAll" THEN "none"
                                                                 ELSE "unavailable"]_vars

\* after closeAll() a transaction was refused and a second closeAll() returned
RefusedAfterCloseAllAndClosedAgain ==
    \E r, o \in Req :
        /\ cpc = "done"
        /\ req[r].op = "tx" /\ req[r].pc = "done" /\ req[r].err = "unavailable"
        /\ req[o].op = "closeAll" /\ req[o].pc = "done" /\ req[o].err = "none"

(***************************************************************************)
(* C29: the two drivers' own queryOne agree on every outcome: null for     *)
(* zero rows, the first row for one or more rows, and the error raised to  *)
(* the caller when the underlying query fails, on either driver.           *)
(***************************************************************************)
DriverQueryOneSettled(r) ==
    req[r].op = "driver.queryOne" /\ req[r].pc = "done" /\ req[r].tr # <<>>

DriversQueryOneAgree ==
    \A r \in Req :
        DriverQueryOneSettled(r) =>
            IF Has(req[r], "stmtFail")
            THEN req[r].err = "stmt" /\ req[r].res = "none"
            ELSE /\ req[r].err = "none"
                 /\ req[r].res = IF req[r].native = <<>> THEN "null"
                                                        ELSE req[r].native[1]

(***************************************************************************)
(* C30: the /health endpoint answers status "healthy" only when            *)
(* healthCheck() reported the active backend as true; when the backend's   *)
(* health is false or the database layer raised, the status is not         *)
(* "healthy".                                                              *)
(***************************************************************************)
HealthyOnlyWhenBackendHealthy ==
    \A r \in Req :
        req[r].status = "healthy" =>
            (req[r].err = "none" /\ req[r].res = (defaultDriver :> TRUE))

====
